---- MODULE Spec2Model ----
(***************************************************************************)
(* audio-api: accounts, password and OAuth login, token verification,      *)
(* audio upload and streaming.  The relational store, the storage          *)
(* directory and the set of issued tokens are the state; every request     *)
(* handler is an action.  create_user is split at its awaits (two SELECTs  *)
(* and the COMMIT) so that concurrent requests interleave.                 *)
(***************************************************************************)
EXTENDS Integers, Sequences, FiniteSets, TLC

(***************************************************************************)
(* Strings whose characters the code inspects (startswith, suffix, lower,  *)
(* substring test) are tuples of one-character strings.                    *)
(***************************************************************************)
AUDIO_PREFIX == <<"a", "u", "d", "i", "o", "/">>
MP3 == <<"a", "u", "d", "i", "o", "/", "m", "p", "e", "g">>
WAV == <<"a", "u", "d", "i", "o", "/", "w", "a", "v">>
OGG == <<"a", "u", "d", "i", "o", "/", "o", "g", "g">>
FLAC == <<"a", "u", "d", "i", "o", "/", "f", "l", "a", "c">>
AAC == <<"a", "u", "d", "i", "o", "/", "a", "a", "c">>
MP4_AUDIO == <<"a", "u", "d", "i", "o", "/", "m", "p", "4">>
X_WAV == <<"a", "u", "d", "i", "o", "/", "x", "-", "w", "a", "v">>
TEXT_PLAIN == <<"t", "e", "x", "t", "/", "p", "l", "a", "i", "n">>
EXT_MP3 == <<".", "m", "p", "3">>
EXT_WAV == <<".", "w", "a", "v">>
EXT_OGG == <<".", "o", "g", "g">>
EXT_FLAC == <<".", "f", "l", "a", "c">>
EXT_AAC == <<".", "a", "a", "c">>
EXT_MP4 == <<".", "m", "p", "4">>
FN_UPPER == <<"B", ".", "W", "A", "V">>
FN_TXT == <<"c", ".", "t", "x", "t">>
SC_EMPTY == << >>
SC_ME == <<"m", "e">>
SC_SUPERUSER == <<"s", "u", "p", "e", "r", "u", "s", "e", "r">>
SC_ME_READ == <<"m", "e", " ", "r", "e", "a", "d">>
SC_DEFAULT == <<"m", "e", " ", "l", "i", "s", "t", "e", "n", "e", "r">>

UpperCase == <<"A", "B", "V", "W">>
LowerCase == <<"a", "b", "v", "w">>

\* str.startswith
StartsWith(s, prefix) ==
    /\ Len(s) >= Len(prefix)
    /\ SubSeq(s, 1, Len(prefix)) = prefix

\* the substring test of `a in b` on two str
IsSubstring(a, b) ==
    \E i \in 0..Len(b) :
        /\ i + Len(a) <= Len(b)
        /\ SubSeq(b, i + 1, i + Len(a)) = a

\* str.lower, on the letters the inputs use
LowerChar(c) ==
    IF \E i \in 1..Len(UpperCase) : UpperCase[i] = c
    THEN LowerCase[CHOOSE i \in 1..Len(UpperCase) : UpperCase[i] = c]
    ELSE c

Lower(s) == [i \in 1..Len(s) |-> LowerChar(s[i])]

\* str.rfind of one character: 0-based index of its last occurrence, -1 if none
RFind(s, c) ==
    IF \E i \in 1..Len(s) : s[i] = c
    THEN (CHOOSE i \in 1..Len(s) : s[i] = c /\ \A j \in (i + 1)..Len(s) : s[j] # c) - 1
    ELSE -1

\* pathlib: Path(filename).name, the final path component
PathName(filename) ==
    SubSeq(filename, RFind(filename, "/") + 2, Len(filename))

\* pathlib: Path(filename).suffix
PathSuffix(filename) ==
    LET name == PathName(filename)
        i == RFind(name, ".")
    IN  IF 0 < i /\ i < Len(name) - 1
        THEN SubSeq(name, i + 1, Len(name))
        ELSE << >>

(***************************************************************************)
(* Bounds of the model and input domains.                                  *)
(***************************************************************************)
MaxUsers == 2
MaxUploads == 2
MaxTokens == 2

Procs == {1, 2}
NULL == "NULL"
Usernames == {"alice", "bob"}
TempPassword == "Tmp!Passw0rd#16c"
BadToken == [sub |-> NULL, scopes |-> [kind |-> "str", val |-> SC_EMPTY], valid |-> FALSE]
Missing == "missing-argument"
Session == "session"

VARIABLES users, files, storage, tokens, uuidCtr, pc, local, last

vars == <<users, files, storage, tokens, uuidCtr, pc, local, last>>

NoLocal == [origin |-> "none"]
NoResponse == [op |-> "none"]

Init ==
    /\ users = << >>
    /\ files = << >>
    /\ storage = {}
    /\ tokens = {}
    /\ uuidCtr = 0
    /\ pc = [p \in Procs |-> "idle"]
    /\ local = [p \in Procs |-> NoLocal]
    /\ last = NoResponse

(***************************************************************************)
(* Exceptions and returns.                                                 *)
(***************************************************************************)
HTTPException(status, detail) ==
    [exc |-> "HTTPException", status |-> status, detail |-> detail, headers |-> "none"]

\* HTTPException(..., headers={"WWW-Authenticate": authenticate})
WithAuthenticate(e, authenticate) == [e EXCEPT !.headers = authenticate]

Raise(cls) == [exc |-> cls, status |-> 0, detail |-> cls, headers |-> "none"]

Return(value) == [exc |-> "none", value |-> value]

\* the classes that derive from sqlalchemy.exc.SQLAlchemyError
IsSQLAlchemyError(e) == e.exc \in {"SQLAlchemyError", "IntegrityError"}

\* what the framework answers when a handler lets the exception e out
Respond(e) ==
    IF e.exc = "HTTPException"
    THEN [status |-> e.status, detail |-> e.detail]
    ELSE [status |-> 500, detail |-> "Internal Server Error"]

(***************************************************************************)
(* The users table.                                                        *)
(***************************************************************************)
UserIds == 1..Len(users)

\* passlib bcrypt: the hash determines the password it was made from
get_password_hash(password) == <<"bcrypt", password>>

\* a check that accepts every password
verify_password_any(plain_password, hashed_password) == TRUE

verify_password(plain_password, hashed_password) ==
    IF hashed_password = << >>
    THEN FALSE
    ELSE hashed_password = <<"bcrypt", plain_password>>

\* select(User).where(User.username == username) ... .first(): the id, 0 for None
UserByUsername(username) ==
    IF \E i \in UserIds : users[i].username = username
    THEN CHOOSE i \in UserIds :
            /\ users[i].username = username
            /\ \A j \in 1..(i - 1) : users[j].username # username
    ELSE 0

\* select(User).where(User.email == email) ... .first(); a None email compiles
\* to "email IS NULL" and finds the accounts that have no email
UserByEmail(email) ==
    IF \E i \in UserIds : users[i].email = email
    THEN CHOOSE i \in UserIds :
            /\ users[i].email = email
            /\ \A j \in 1..(i - 1) : users[j].email # email
    ELSE 0

\* the names the store may report for a violated unique index of `column`
ConstraintNames(column) ==
    IF column = "username"
    THEN {"users_username_key", "ix_users_username"}
    ELSE {"users_email_key", "ix_users_email"}

\* unique=True on username and on email (NULL emails do not collide):
\* the columns on which `table` with row `id` set to `row` would collide
UniqueViolations(table, id, row) ==
    {c \in {"username", "email"} :
        \E j \in 1..Len(table) :
            /\ j # id
            /\ IF c = "username"
               THEN table[j].username = row.username
               ELSE row.email # NULL /\ table[j].email = row.email}

(***************************************************************************)
(* create_user, one operator per database statement.                       *)
(***************************************************************************)
get_user(username, db_ok) ==
    IF username = NULL
    THEN HTTPException(401, "Username is required.")
    ELSE IF ~db_ok
         THEN HTTPException(500, "Database error")
         ELSE Return(UserByUsername(username))

\* create.py 48-50
create_user_by_username(user, db_ok) ==
    LET r == get_user(user.username, db_ok)
    IN  IF r.exc # "none"
        THEN r
        ELSE IF r.value # 0
             THEN HTTPException(400, "Username already registered")
             ELSE Return(0)

\* create.py 52-54
create_user_by_email(user, db_ok) ==
    IF ~db_ok
    THEN Raise("SQLAlchemyError")
    ELSE IF UserByEmail(user.email) # 0
         THEN HTTPException(400, "Email is already registered")
         ELSE Return(0)

\* create.py 60-69
NewUser(user) ==
    [username |-> user.username,
     email |-> IF user.email # NULL THEN user.email ELSE NULL,
     hashed_password |-> get_password_hash(user.password),
     full_name |-> user.full_name,
     disabled |-> user.disabled,
     scopes |-> IF user.scopes # SC_EMPTY THEN user.scopes ELSE SC_DEFAULT,
     is_oauth |-> user.is_oauth,
     oauth_provider |-> user.oauth_provider,
     oauth_id |-> user.oauth_id]

\* create.py 76-102: the handler of IntegrityError, `constraint` being the
\* name in str(e.orig)
integrity_error_handler(constraint) ==
    IF constraint = "users_username_key"
    THEN HTTPException(400, "Username already taken.")
    ELSE IF constraint = "users_email_key"
         THEN HTTPException(400, "Email already taken.")
         ELSE HTTPException(500, "An unexpected database error occurred.")

\* a store without unique indexes: every insert is accepted
InsertAcceptedUnchecked(row) == TRUE

\* the INSERT at commit: does the store accept `row` as a new account
InsertAccepted(row) == UniqueViolations(users, 0, row) = {}

\* create.py 71-104: add, commit, refresh.  `constraint` is the name the store
\* reports should the insert violate a unique index.
create_user_commit(user, db_ok, constraint) ==
    IF ~db_ok
    THEN Raise("SQLAlchemyError")
    ELSE IF ~InsertAccepted(NewUser(user))
         THEN integrity_error_handler(constraint)
         ELSE Return(Len(users) + 1)

\* the username or the non-null email of the request is held by an account
Taken(user) == UniqueViolations(users, 0, NewUser(user)) # {}

\* the names the store can report for the insert of `row`
ReportedConstraints(row) ==
    IF UniqueViolations(users, 0, row) = {}
    THEN {"none"}
    ELSE UNION {ConstraintNames(c) : c \in UniqueViolations(users, 0, row)}

(***************************************************************************)
(* Token issuance and verification.                                        *)
(***************************************************************************)
\* auth.py 83-102 with jwt.encode: the claims of the signed token
create_access_token(sub, scopes) ==
    [sub |-> sub, scopes |-> scopes, valid |-> TRUE]

\* auth_token.py 83-87: form_data.scopes or user.scopes or ""
\* (form_data.scopes is a list of str, user.scopes a str)
EffectiveScopes(form_scopes, user_scopes) ==
    IF form_scopes # << >>
    THEN [kind |-> "list", val |-> form_scopes]
    ELSE [kind |-> "str", val |-> user_scopes]

\* a login that lets an OAuth-originated account in with its password
login_for_access_token_any_origin(form_data, db, is_oauth, db_ok) ==
    IF db = Missing
    THEN Raise("TypeError")
    ELSE LET r == get_user(form_data.username, db_ok)
         IN  IF r.exc # "none"
             THEN r
             ELSE IF r.value = 0
                  THEN WithAuthenticate(
                           HTTPException(401, "Incorrect username or password"), "Bearer")
                  ELSE LET user == users[r.value]
                       IN  IF ~is_oauth
                              /\ ~verify_password(form_data.password, user.hashed_password)
                           THEN WithAuthenticate(
                                    HTTPException(401, "Incorrect username or password"),
                                    "Bearer")
                           ELSE IF user.disabled
                                THEN HTTPException(403, "Inactive user")
                                ELSE Return(create_access_token(
                                         user.username,
                                         EffectiveScopes(form_data.scopes, user.scopes)))

\* auth_token.py 23-90.  db is Missing when a caller passes no session: the
\* parameter has no default, so the call itself raises TypeError.
login_for_access_token(form_data, db, is_oauth, db_ok) ==
    IF db = Missing
    THEN Raise("TypeError")
    ELSE LET r == get_user(form_data.username, db_ok)
         IN  IF r.exc # "none"
             THEN r
             ELSE IF r.value = 0
                  THEN WithAuthenticate(
                           HTTPException(401, "Incorrect username or password"), "Bearer")
                  ELSE LET user == users[r.value]
                       IN  IF user.is_oauth /\ ~is_oauth
                           THEN WithAuthenticate(
                                    HTTPException(403, "Please login using your OAuth provider"),
                                    "Bearer")
                           ELSE IF ~is_oauth
                                   /\ ~verify_password(form_data.password, user.hashed_password)
                                THEN WithAuthenticate(
                                         HTTPException(401, "Incorrect username or password"),
                                         "Bearer")
                                ELSE IF user.disabled
                                     THEN HTTPException(403, "Inactive user")
                                     ELSE Return(create_access_token(
                                              user.username,
                                              EffectiveScopes(form_data.scopes, user.scopes)))

\* get.py 60-119: get_current_user; `required` is security_scopes.scopes
get_current_user(token, required, db_ok) ==
    IF ~token.valid \/ token.sub = NULL \/ token.scopes.kind # "str"
    THEN HTTPException(401, "Could not validate credentials")
    ELSE LET r == get_user(token.sub, db_ok)
         IN  IF r.exc # "none"
             THEN r
             ELSE IF r.value = 0
                  THEN HTTPException(401, "Could not validate credentials")
                  ELSE IF \E i \in 1..Len(required) :
                             ~IsSubstring(required[i], token.scopes.val)
                       THEN HTTPException(401, "Not enough permissions")
                       ELSE Return(r.value)

\* a dependency that lets disabled accounts through
get_current_active_user_any(token, scopes, db_ok) ==
    get_current_user(token, scopes \o <<SC_ME>>, db_ok)

\* get.py 122-141: get_current_active_user; `scopes` are those of the endpoint's
\* Security(...), to which the dependency adds its own "me"
get_current_active_user(token, scopes, db_ok) ==
    LET r == get_current_user(token, scopes \o <<SC_ME>>, db_ok)
    IN  IF r.exc # "none"
        THEN r
        ELSE IF users[r.value].disabled
             THEN HTTPException(400, "Inactive user")
             ELSE r

(***************************************************************************)
(* Requests.  A handler that runs to completion answers with Finish; the   *)
(* answer of the latest completed request is `last`.                       *)
(***************************************************************************)
Finish(p, response) ==
    /\ pc' = [pc EXCEPT ![p] = "idle"]
    /\ local' = [local EXCEPT ![p] = NoLocal]
    /\ last' = response

\* user/user.py 13-25: the body of POST /register
UserCreate(username, email, password, scopes, disabled, is_oauth) ==
    [username |-> username, email |-> email, full_name |-> << >>,
     disabled |-> disabled, scopes |-> scopes, is_oauth |-> is_oauth,
     oauth_provider |-> NULL, oauth_id |-> NULL, password |-> password]

\* yandex_auth.py 286-291: handlers of the try around create_user and the login
callback_create_handlers(e) ==
    IF IsSQLAlchemyError(e)
    THEN HTTPException(503, "Database service unavailable")
    ELSE e

\* yandex_auth.py 293-312: handlers of the try around the user processing;
\* HTTPException is an Exception and is caught by the last of them
callback_user_handlers(e) ==
    IF e.exc \in {"TimeoutError", "ClientError"}
    THEN HTTPException(503, "Could not connect to Yandex user info service. Please try again later.")
    ELSE IF e.exc = "MissingTokenError"
         THEN HTTPException(400, "Invalid token received from Yandex")
         ELSE HTTPException(500, "An error occurred while processing your login.")

\* yandex_auth.py 314-322: handlers of the outermost try
callback_top_handlers(e) ==
    IF e.exc = "HTTPException"
    THEN e
    ELSE HTTPException(500, "An unexpected error occurred during authentication.")

\* the handlers an exception of create_user passes on its way out
RaiseFrom(origin, e) ==
    IF origin = "register"
    THEN e
    ELSE callback_top_handlers(callback_user_handlers(callback_create_handlers(e)))

\* the answer to a request that ends in exception e
ErrorResponse(origin, p, branch, e, created, conflict) ==
    [op |-> origin, proc |-> p, branch |-> branch,
     status |-> Respond(e).status, detail |-> Respond(e).detail,
     created |-> created, conflict |-> conflict,
     has_token |-> FALSE, sub |-> NULL,
     is_temporary_password |-> FALSE, temporary_password |-> ""]

\* a RedirectResponse
Redirect(p, branch, url) ==
    [op |-> "callback", proc |-> p, branch |-> branch,
     status |-> 302, detail |-> url,
     created |-> 0, conflict |-> FALSE,
     has_token |-> FALSE, sub |-> NULL,
     is_temporary_password |-> FALSE, temporary_password |-> ""]

\* register.py 41 (the created account) and yandex_auth.py 199-209, 273-284
\* (AuthResponse)
SuccessResponse(origin, p, branch, created, token, temp) ==
    [op |-> origin, proc |-> p, branch |-> branch,
     status |-> 200, detail |-> "OK",
     created |-> created, conflict |-> FALSE,
     has_token |-> origin = "callback",
     sub |-> IF origin = "callback" THEN token.sub ELSE NULL,
     is_temporary_password |-> temp # "",
     temporary_password |-> temp]

\* the form the callback hands to login_for_access_token
LoginForm(username, password) ==
    [username |-> username, password |-> password, scopes |-> << >>]

\* yandex_auth.py 249-271: the new-account branch calls
\* login_for_access_token(form_data): no session, no is_oauth
callback_login_new(user) ==
    LET r == login_for_access_token(LoginForm(user.username, user.password),
                                    Missing, FALSE, TRUE)
    IN  IF r.exc # "none"
        THEN HTTPException(500, "Error generating access token")
        ELSE r

\* settings.PASSWORD_STUB: class Settings (config.py 14-66) declares no such
\* field and ignores extra input, so reading the attribute raises
PASSWORD_STUB == Raise("AttributeError")

\* yandex_auth.py 175-197: the returning-user branch builds the form with
\* settings.PASSWORD_STUB and calls login_for_access_token(form_data,
\* is_oauth=True) with no session; every exception becomes the 500 of line 194
callback_login_returning(existing_user) ==
    LET r == IF PASSWORD_STUB.exc # "none"
             THEN PASSWORD_STUB
             ELSE login_for_access_token(
                      LoginForm(existing_user.username, PASSWORD_STUB.value),
                      Missing, TRUE, TRUE)
    IN  IF r.exc # "none"
        THEN HTTPException(500, "Error generating access token")
        ELSE r

\* create.py 48-50 as the first statement of a request
CreateUserByUsername(p, origin, user, db_ok) ==
    LET r == create_user_by_username(user, db_ok)
    IN  IF r.exc = "none"
        THEN /\ pc' = [pc EXCEPT ![p] = "cu_email"]
             /\ local' = [local EXCEPT ![p] = [origin |-> origin, user |-> user]]
             /\ UNCHANGED last
        ELSE Finish(p, ErrorResponse(origin, p, "new", RaiseFrom(origin, r), 0,
                                     Taken(user)))

\* POST /register: register_user, up to the first SELECT of create_user
RegisterStart(p, user, db_ok) ==
    /\ pc[p] = "idle"
    /\ CreateUserByUsername(p, "register", user, db_ok)
    /\ UNCHANGED <<users, files, storage, tokens, uuidCtr>>

\* the callback's create_user, first SELECT
CuUsername(p, db_ok) ==
    /\ pc[p] = "cu_username"
    /\ CreateUserByUsername(p, local[p].origin, local[p].user, db_ok)
    /\ UNCHANGED <<users, files, storage, tokens, uuidCtr>>

\* create_user, second SELECT
CuEmail(p, db_ok) ==
    /\ pc[p] = "cu_email"
    /\ LET r == create_user_by_email(local[p].user, db_ok)
       IN  IF r.exc = "none"
           THEN /\ pc' = [pc EXCEPT ![p] = "cu_commit"]
                /\ UNCHANGED <<local, last>>
           ELSE Finish(p, ErrorResponse(local[p].origin, p, "new",
                                        RaiseFrom(local[p].origin, r), 0,
                                        Taken(local[p].user)))
    /\ UNCHANGED <<users, files, storage, tokens, uuidCtr>>

\* create_user, add/commit/refresh, and what the caller does with the account
CuCommit(p, db_ok, constraint) ==
    /\ pc[p] = "cu_commit"
    /\ constraint \in ReportedConstraints(NewUser(local[p].user))
    /\ LET user == local[p].user
           origin == local[p].origin
           r == create_user_commit(user, db_ok, constraint)
       IN  IF r.exc = "none"
           THEN /\ Len(users) < MaxUsers
                /\ users' = Append(users, NewUser(user))
                /\ IF origin = "register"
                   THEN /\ Finish(p, SuccessResponse(origin, p, "new", r.value, BadToken, ""))
                        /\ tokens' = tokens
                   ELSE LET t == callback_login_new(user)
                        IN  IF t.exc = "none"
                            THEN /\ tokens' = tokens \cup {t.value}
                                 /\ Finish(p, SuccessResponse(origin, p, "new", r.value,
                                                              t.value, user.password))
                            ELSE /\ tokens' = tokens
                                 /\ Finish(p, ErrorResponse(origin, p, "new",
                                                  RaiseFrom(origin, t), r.value, FALSE))
           ELSE /\ UNCHANGED <<users, tokens>>
                /\ Finish(p, ErrorResponse(origin, p, "new", RaiseFrom(origin, r), 0,
                                           Taken(user)))
    /\ UNCHANGED <<files, storage, uuidCtr>>

(***************************************************************************)
(* GET /auth/yandex/callback                                               *)
(***************************************************************************)
NonEmpty(name) == name # ""

\* yandex_auth.py 214-219: first + last name, else display name, else login
FullName(profile) ==
    LET names == SelectSeq(<<profile.first_name, profile.last_name>>, NonEmpty)
    IN  IF names # << >>
        THEN names
        ELSE IF profile.display_name # ""
             THEN <<profile.display_name>>
             ELSE <<profile.login>>

\* yandex_auth.py 233-243
YandexUserCreate(profile, temp_password) ==
    [username |-> profile.login, email |-> profile.default_email,
     full_name |-> FullName(profile), disabled |-> FALSE, scopes |-> SC_DEFAULT,
     is_oauth |-> TRUE, oauth_provider |-> "yandex", oauth_id |-> profile.id,
     password |-> temp_password]

\* a callback that treats every account holding the email as OAuth-originated
EmailConflictNever(existing_user) == FALSE

\* yandex_auth.py 164-172: an account with the profile's email exists; is the
\* callback refused (the account is a password account)
EmailConflict(existing_user) == ~existing_user.is_oauth

\* a callback that does not look at the provider's error
ProviderErrorIgnored(error) == FALSE

\* yandex_auth.py 86: `if error:`
ProviderError(error) == error # NULL

\* yandex_auth.py 76-245, up to the call of create_user.
\*   exchange: outcome of authorize_access_token;  userinfo: outcome of userinfo
\*   email_validate: outcome of EmailStr.validate ("ok", "ValueError" for a
\*   malformed address, "AttributeError" where the class has no such method)
CallbackRun(p, error, code, exchange, userinfo, profile, email_validate, db_ok) ==
    /\ UNCHANGED <<users, files, storage, uuidCtr>>
    /\ IF ProviderError(error)
       THEN /\ Finish(p, Redirect(p, "error", "/register?error=yandex_auth_failed"))
            /\ tokens' = tokens
       ELSE IF code = NULL
       THEN /\ Finish(p, ErrorResponse("callback", p, "nocode",
                   callback_top_handlers(HTTPException(400,
                       "Invalid callback request from Yandex: missing code.")), 0, FALSE))
            /\ tokens' = tokens
       ELSE IF exchange # "ok"
       THEN /\ Finish(p, ErrorResponse("callback", p, "exchange",
                   callback_top_handlers(
                       IF exchange \in {"TimeoutError", "ClientError"}
                       THEN HTTPException(503, "Could not connect to Yandex authentication service. Please try again later.")
                       ELSE HTTPException(400, "Failed to exchange code for access token.")),
                   0, FALSE))
            /\ tokens' = tokens
       ELSE IF userinfo # "ok"
       THEN /\ Finish(p, ErrorResponse("callback", p, "userinfo",
                   callback_top_handlers(callback_user_handlers(
                       IF userinfo = "empty"
                       THEN HTTPException(400, "Empty user data received from Yandex")
                       ELSE IF userinfo = "invalid"
                            THEN HTTPException(400, "Invalid user data received from Yandex")
                            ELSE Raise(userinfo))),
                   0, FALSE))
            /\ tokens' = tokens
       ELSE IF ~db_ok
       THEN /\ Finish(p, ErrorResponse("callback", p, "lookup",
                   callback_top_handlers(callback_user_handlers(
                       HTTPException(503, "Database service unavailable"))), 0, FALSE))
            /\ tokens' = tokens
       ELSE IF UserByEmail(profile.default_email) # 0
       THEN LET existing_user == users[UserByEmail(profile.default_email)]
            IN  IF EmailConflict(existing_user)
                THEN /\ Finish(p, Redirect(p, "conflict", "/register"))
                     /\ tokens' = tokens
                ELSE LET t == callback_login_returning(existing_user)
                     IN  IF t.exc = "none"
                         THEN /\ Cardinality(tokens \cup {t.value}) <= MaxTokens
                              /\ tokens' = tokens \cup {t.value}
                              /\ Finish(p, SuccessResponse("callback", p, "returning",
                                                           0, t.value, ""))
                         ELSE /\ tokens' = tokens
                              /\ Finish(p, ErrorResponse("callback", p, "returning",
                                     callback_top_handlers(callback_user_handlers(t)),
                                     0, FALSE))
       ELSE IF email_validate # "ok"
       THEN /\ Finish(p, ErrorResponse("callback", p, "new",
                   RaiseFrom("callback",
                       IF email_validate = "ValueError"
                       THEN HTTPException(400, "Invalid email address received from Yandex")
                       ELSE Raise(email_validate)), 0, FALSE))
            /\ tokens' = tokens
       ELSE /\ pc' = [pc EXCEPT ![p] = "cu_username"]
            /\ local' = [local EXCEPT ![p] =
                   [origin |-> "callback", user |-> YandexUserCreate(profile, TempPassword)]]
            /\ UNCHANGED <<last, tokens>>

\* GET /auth/yandex/callback as one step, up to the call of create_user
CallbackStart(p, error, code, exchange, userinfo, profile, email_validate, db_ok) ==
    /\ pc[p] = "idle"
    /\ CallbackRun(p, error, code, exchange, userinfo, profile, email_validate, db_ok)

(***************************************************************************)
(* POST /token                                                             *)
(***************************************************************************)
Login(username, password, form_scopes, is_oauth, db_ok) ==
    LET form_data == [username |-> username, password |-> password, scopes |-> form_scopes]
        r == login_for_access_token(form_data, Session, is_oauth, db_ok)
    IN  /\ IF r.exc = "none"
           THEN /\ Cardinality(tokens \cup {r.value}) <= MaxTokens
                /\ tokens' = tokens \cup {r.value}
                /\ last' = [op |-> "login", status |-> 200, detail |-> "OK",
                            username |-> username, password |-> password,
                            bypass |-> is_oauth,
                            has_token |-> TRUE, token |-> r.value]
           ELSE /\ tokens' = tokens
                /\ last' = [op |-> "login", status |-> Respond(r).status,
                            detail |-> Respond(r).detail,
                            username |-> username, password |-> password,
                            bypass |-> is_oauth,
                            has_token |-> FALSE, token |-> BadToken]
        /\ UNCHANGED <<users, files, storage, uuidCtr, pc, local>>

(***************************************************************************)
(* PUT /users/me/update/ and PATCH /users/{user_id}                        *)
(***************************************************************************)
\* a store without unique indexes: an update only needs a username
UpdateAcceptedUnchecked(id, row) == row.username # NULL

\* the UPDATE at commit: does the store accept `row` for account `id`
\* (unique username, unique email, username NOT NULL)
UpdateAccepted(id, row) ==
    /\ row.username # NULL
    /\ UniqueViolations(users, id, row) = {}

\* an update of the own account that also stores the password of the request
OwnUpdateWithPassword(row, user_update) ==
    [row EXCEPT
        !.username = IF user_update.username # NULL THEN user_update.username ELSE @,
        !.email = IF user_update.email # NULL THEN user_update.email ELSE @,
        !.full_name = IF user_update.full_name # << >> THEN user_update.full_name ELSE @,
        !.hashed_password = IF user_update.password # NULL
                            THEN get_password_hash(user_update.password) ELSE @]

\* me.py 54-60: only the truthy fields of the request are assigned
OwnUpdate(row, user_update) ==
    [row EXCEPT
        !.username = IF user_update.username # NULL THEN user_update.username ELSE @,
        !.email = IF user_update.email # NULL THEN user_update.email ELSE @,
        !.full_name = IF user_update.full_name # << >> THEN user_update.full_name ELSE @]

\* me.py 26-64
update_own_user(token, user_update, db_ok) ==
    LET auth == get_current_active_user(token, <<SC_ME_READ>>, db_ok)
    IN  /\ IF auth.exc # "none"
           THEN /\ users' = users
                /\ last' = [op |-> "update_own", status |-> Respond(auth).status,
                            detail |-> Respond(auth).detail, principal |-> 0,
                            collides |-> FALSE, changed |-> FALSE]
           ELSE LET row == OwnUpdate(users[auth.value], user_update)
                    collides == UniqueViolations(users, auth.value, row) # {}
                IN  IF UpdateAccepted(auth.value, row)
                    THEN /\ users' = [users EXCEPT ![auth.value] = row]
                         /\ last' = [op |-> "update_own", status |-> 200,
                                     detail |-> "OK", principal |-> auth.value,
                                     collides |-> collides, changed |-> users' # users]
                    ELSE /\ users' = users
                         /\ last' = [op |-> "update_own",
                                     status |-> Respond(Raise("IntegrityError")).status,
                                     detail |-> Respond(Raise("IntegrityError")).detail,
                                     principal |-> auth.value,
                                     collides |-> collides, changed |-> FALSE]
        /\ UNCHANGED <<files, storage, tokens, uuidCtr, pc, local>>

\* an admin update whose dump keeps the password and stores its hash
AdminUpdateWithPassword(row, user_update) ==
    [k \in DOMAIN row |->
        IF k \in (DOMAIN user_update) \ {"password"}
        THEN user_update[k]
        ELSE IF k = "hashed_password" /\ "password" \in DOMAIN user_update
             THEN get_password_hash(user_update.password)
             ELSE row[k]]

\* users.py 64-66: every field the request sets, but the password, is assigned
AdminUpdate(row, user_update) ==
    [k \in DOMAIN row |->
        IF k \in (DOMAIN user_update) \ {"password"} THEN user_update[k] ELSE row[k]]

\* users.py 42-69
update_user(token, user_id, user_update, db_ok) ==
    LET auth == get_current_active_user(token, <<SC_SUPERUSER>>, db_ok)
    IN  /\ IF auth.exc # "none"
           THEN /\ users' = users
                /\ last' = [op |-> "update_user", status |-> Respond(auth).status,
                            detail |-> Respond(auth).detail, user_id |-> user_id,
                            collides |-> FALSE, changed |-> FALSE]
           ELSE IF user_id \notin UserIds
           THEN /\ users' = users
                /\ last' = [op |-> "update_user", status |-> 404,
                            detail |-> "User with ID not found.", user_id |-> user_id,
                            collides |-> FALSE, changed |-> FALSE]
           ELSE LET row == AdminUpdate(users[user_id], user_update)
                    collides == UniqueViolations(users, user_id, row) # {}
                IN  IF UpdateAccepted(user_id, row)
                    THEN /\ users' = [users EXCEPT ![user_id] = row]
                         /\ last' = [op |-> "update_user", status |-> 200,
                                     detail |-> "OK", user_id |-> user_id,
                                     collides |-> collides, changed |-> users' # users]
                    ELSE /\ users' = users
                         /\ last' = [op |-> "update_user",
                                     status |-> Respond(Raise("IntegrityError")).status,
                                     detail |-> Respond(Raise("IntegrityError")).detail,
                                     user_id |-> user_id,
                                     collides |-> collides, changed |-> FALSE]
        /\ UNCHANGED <<files, storage, tokens, uuidCtr, pc, local>>

(***************************************************************************)
(* POST /audio/upload                                                      *)
(***************************************************************************)
\* schemas/audiofile.py 12-20: the values of the ContentType enum
ContentType == {MP3, WAV, OGG, FLAC, AAC, MP4_AUDIO}

\* upload_file.py 26-33: SUPPORTED_EXTENSIONS.values()
SUPPORTED_EXTENSIONS == {EXT_MP3, EXT_WAV, EXT_OGG, EXT_FLAC, EXT_AAC, EXT_MP4}

\* upload_file.py 74: the check of the declared content type
ContentTypeAllowed(content_type) == StartsWith(content_type, AUDIO_PREFIX)

OnDisk(name) == \E o \in storage : o.name = name

\* save_path.unlink(missing_ok=True)
Unlink(store, name) == {o \in store : o.name # name}

\* does the handler around `step` catch an exception of class `exc`
\* (upload_file.py 101, 110, 123, 143-149); asyncio.CancelledError derives
\* from BaseException, which `except Exception` lets pass
Caught(step, exc) ==
    IF step = "stat"
    THEN exc = "OSError"
    ELSE exc # "CancelledError"

\* the error classes that can strike at each step of upload_audio_file
ExcAt(step) ==
    IF step = "none" THEN {"none"}
    ELSE IF step = "mkdir" THEN {"OSError"}
    ELSE IF step = "copy" THEN {"OSError", "CancelledError"}
    ELSE IF step = "stat" THEN {"OSError"}
    ELSE IF step = "commit" THEN {"SQLAlchemyError", "ValueError"}
    ELSE {"SQLAlchemyError"}

UploadFailures == {"none", "mkdir", "copy", "merge", "stat", "commit", "refresh"}

\* the `detail` of the HTTPException upload_audio_file raises for a caught error
UploadDetail(step, exc) ==
    IF step = "copy" THEN "File save failed"
    ELSE IF step = "merge" THEN "Failed to process user session"
    ELSE IF step = "stat" THEN "Failed to get file details"
    ELSE IF exc = "ValueError" THEN "Invalid data"
    ELSE "Database operation failed"

\* a record that shares the file with nobody
AudioFileRowUnshared(unique_name, content_type, file_size, current_user) ==
    [filename |-> unique_name, content_type |-> content_type,
     size |-> file_size, path |-> unique_name, genre |-> NULL,
     owner_id |-> current_user, authorized_users |-> {}]

\* upload_file.py 128-136: the AudioFile record
AudioFileRow(unique_name, content_type, file_size, current_user) ==
    [filename |-> unique_name, content_type |-> content_type,
     size |-> file_size, path |-> unique_name, genre |-> NULL,
     owner_id |-> current_user, authorized_users |-> {current_user}]

\* upload_file.py 74-167.
\*   body: the number of bytes of the upload;  fail: the step at which an
\*   error strikes ("none": no error);  exc: the class of that error
upload_audio_file(token, content_type, filename, body, fail, exc, db_ok) ==
    LET auth == get_current_active_user(token, << >>, db_ok)
        ext == Lower(PathSuffix(filename))
        unique_name == <<uuidCtr + 1, ext>>
        object == [name |-> unique_name, size |-> IF fail = "copy" THEN 0 ELSE body]
        row == AudioFileRow(unique_name, content_type, body, auth.value)
        answer(status, detail, began, id) ==
            [op |-> "upload", status |-> status, detail |-> detail, began |-> began,
             name |-> unique_name, content_type |-> content_type, id |-> id,
             principal |-> IF auth.exc = "none" THEN auth.value ELSE 0]
        \* a request cancelled answers nothing (status 0); another error that
        \* no handler catches is the framework's 500
        failed ==
            IF Caught(fail, exc)
            THEN answer(IF fail = "commit" /\ exc = "ValueError" THEN 400 ELSE 500,
                        UploadDetail(fail, exc), TRUE, 0)
            ELSE IF exc = "CancelledError"
                 THEN answer(0, exc, TRUE, 0)
                 ELSE answer(Respond(Raise(exc)).status, Respond(Raise(exc)).detail, TRUE, 0)
    IN  /\ UNCHANGED <<users, tokens, pc, local>>
        /\ exc \in ExcAt(fail)
        /\ IF auth.exc # "none"
           THEN /\ last' = answer(Respond(auth).status, Respond(auth).detail, FALSE, 0)
                /\ UNCHANGED <<files, storage, uuidCtr>>
           ELSE IF ~ContentTypeAllowed(content_type)
           THEN /\ last' = answer(400, "Only audio files allowed", FALSE, 0)
                /\ UNCHANGED <<files, storage, uuidCtr>>
           ELSE IF ext \notin SUPPORTED_EXTENSIONS
           THEN /\ last' = answer(400, "Supported formats: MP3, WAV, OGG, FLAC, AAC, MP4_AUDIO",
                                  FALSE, 0)
                /\ UNCHANGED <<files, storage, uuidCtr>>
           ELSE /\ uuidCtr < MaxUploads
                /\ uuidCtr' = uuidCtr + 1
                /\ IF fail = "mkdir"
                   THEN /\ last' = answer(500, "Storage configuration error", FALSE, 0)
                        /\ UNCHANGED <<files, storage>>
                   ELSE IF fail \in {"copy", "merge", "stat"}
                   THEN /\ files' = files
                        /\ storage' = IF Caught(fail, exc)
                                      THEN Unlink(storage \cup {object}, unique_name)
                                      ELSE storage \cup {object}
                        /\ last' = failed
                   ELSE IF content_type \notin ContentType
                   THEN \* upload_file.py 131: ContentType(file.content_type) raises
                        \* ValueError outside every try
                        /\ files' = files
                        /\ storage' = storage \cup {object}
                        /\ last' = answer(Respond(Raise("ValueError")).status,
                                          Respond(Raise("ValueError")).detail, TRUE, 0)
                   ELSE IF fail \in {"commit", "refresh"}
                   THEN /\ files' = IF fail = "refresh" THEN Append(files, row) ELSE files
                        /\ storage' = IF Caught(fail, exc)
                                      THEN Unlink(storage \cup {object}, unique_name)
                                      ELSE storage \cup {object}
                        /\ last' = failed
                   ELSE /\ files' = Append(files, row)
                        /\ storage' = storage \cup {object}
                        /\ last' = answer(201, "Created", TRUE, Len(files) + 1)

(***************************************************************************)
(* GET /audio/{audio_id}/file                                              *)
(***************************************************************************)
\* the mutant of CanRead that lets every principal read
CanReadAnyone(principal, audio_file, same_object) == TRUE

\* get_file.py 48-52: may `principal` read `audio_file`.  same_object: whether
\* the principal's User object is the one loaded into authorized_users (`in`
\* compares ORM objects by identity)
CanRead(principal, audio_file, same_object) ==
    \/ audio_file.owner_id = principal
    \/ (principal \in audio_file.authorized_users /\ same_object)

\* the mutant of StreamDecision that looks at the disk before the permission
StreamDecisionDiskFirst(principal, audio_id, same_object) ==
    IF audio_id \notin 1..Len(files)
    THEN [status |-> 404, detail |-> "Audio file not found"]
    ELSE IF ~OnDisk(files[audio_id].path)
    THEN [status |-> 404, detail |-> "File missing on server"]
    ELSE IF ~CanRead(principal, files[audio_id], same_object)
    THEN [status |-> 403, detail |-> "Not authorized"]
    ELSE [status |-> 200, detail |-> "FileResponse"]

\* get_file.py 38-66: the answer to an authenticated principal
StreamDecision(principal, audio_id, same_object) ==
    IF audio_id \notin 1..Len(files)
    THEN [status |-> 404, detail |-> "Audio file not found"]
    ELSE IF ~CanRead(principal, files[audio_id], same_object)
    THEN [status |-> 403, detail |-> "Not authorized"]
    ELSE IF ~OnDisk(files[audio_id].path)
    THEN [status |-> 404, detail |-> "File missing on server"]
    ELSE [status |-> 200, detail |-> "FileResponse"]

\* get_file.py 23-66
stream_audio_file(token, audio_id, same_object, db_ok) ==
    LET auth == get_current_active_user(token, << >>, db_ok)
        answer(status, detail, principal) ==
            [op |-> "stream", status |-> status, detail |-> detail,
             audio_id |-> audio_id, principal |-> principal]
    IN  /\ UNCHANGED <<users, files, storage, tokens, uuidCtr, pc, local>>
        /\ IF auth.exc # "none"
           THEN last' = answer(Respond(auth).status, Respond(auth).detail, 0)
           ELSE last' = answer(StreamDecision(auth.value, audio_id, same_object).status,
                               StreamDecision(auth.value, audio_id, same_object).detail,
                               auth.value)

(***************************************************************************)
(* Input domains and specifications.                                       *)
(***************************************************************************)
Tokens == tokens \cup {BadToken}

\* the accounts of the audio scenarios: default scopes
AudioRequests ==
    {UserCreate("alice", "a@x.com", "pw12345678", SC_EMPTY, FALSE, FALSE),
     UserCreate("bob", "b@x.com", "pw12345678", SC_EMPTY, FALSE, FALSE)}

Register(p, requests) ==
    \/ \E user \in requests : RegisterStart(p, user, TRUE)
    \/ CuEmail(p, TRUE)
    \/ \E constraint \in {"none"} \cup ConstraintNames("username") \cup ConstraintNames("email") :
           CuCommit(p, TRUE, constraint)

PasswordLogin ==
    \E u \in Usernames : Login(u, "pw12345678", << >>, FALSE, TRUE)

Upload ==
    \E token \in Tokens, content_type \in {MP3, X_WAV, TEXT_PLAIN},
       filename \in {FN_UPPER, FN_TXT}, fail \in UploadFailures :
        \E exc \in ExcAt(fail) :
            upload_audio_file(token, content_type, filename, 3, fail, exc, TRUE)

Stream ==
    \E token \in Tokens, audio_id \in 1..(MaxUploads + 1), same_object \in BOOLEAN :
        stream_audio_file(token, audio_id, same_object, TRUE)

NextAudio ==
    \/ Register(1, AudioRequests)
    \/ PasswordLogin
    \/ Upload
    \/ Stream

SpecAudio == Init /\ [][NextAudio]_vars

\* the external identities of the OAuth scenarios
P_BOB ==
    [id |-> "y-1", login |-> "bob", default_email |-> "b@x.com",
     first_name |-> "", last_name |-> "", display_name |-> ""]

P_ALICE ==
    [id |-> "y-2", login |-> "alice", default_email |-> "a@x.com",
     first_name |-> "Alice", last_name |-> "Liddell", display_name |-> "al"]

Profiles == {P_BOB, P_ALICE}

\* a callback the provider answers: code exchange and profile fetch succeed
Callback(p, profiles) ==
    \/ \E profile \in profiles, email_validate \in {"ok", "AttributeError"} :
           CallbackStart(p, NULL, "c0de", "ok", "ok", profile, email_validate, TRUE)
    \/ CuUsername(p, TRUE)

\* registrations whose scopes open the update endpoints
SC_POWER == SC_ME_READ \o <<" ">> \o SC_SUPERUSER

AccountRequests ==
    {UserCreate(u, e, "pw12345678", SC_POWER, FALSE, FALSE) :
        u \in Usernames, e \in {NULL, "a@x.com"}}

OwnUpdates ==
    {[username |-> u, email |-> e, full_name |-> << >>, password |-> NULL] :
        u \in Usernames \cup {NULL}, e \in {NULL, "a@x.com"}}

AdminUpdates ==
    {[username |-> u] : u \in Usernames \cup {NULL}}
        \cup {[email |-> e] : e \in {NULL, "a@x.com"}}

UpdateOwn ==
    \E token \in Tokens, user_update \in OwnUpdates :
        update_own_user(token, user_update, TRUE)

UpdateUser ==
    \E token \in Tokens, user_id \in 1..MaxUsers, user_update \in AdminUpdates :
        update_user(token, user_id, user_update, TRUE)

NextAccounts ==
    \/ \E p \in Procs : Register(p, AccountRequests)
    \/ \E p \in Procs : Callback(p, {P_BOB})
    \/ PasswordLogin
    \/ UpdateOwn
    \/ UpdateUser

SpecAccounts == Init /\ [][NextAccounts]_vars

NextOAuth ==
    \/ \E p \in Procs : Register(p, AudioRequests)
    \/ \E p \in Procs : Callback(p, Profiles)
    \/ PasswordLogin

SpecOAuth == Init /\ [][NextOAuth]_vars

(***************************************************************************)
(* Properties of upload and streaming (SpecAudio).                         *)
(***************************************************************************)
\* C1: an upload that answers an error after the copy to the storage path has
\* begun leaves no storage object under the name it generated.
C1_NoOrphanAfterError ==
    (last.op = "upload" /\ last.began /\ last.status >= 400)
        => ~OnDisk(last.name)

\* C2: an authenticated upload whose declared content type is not one of the
\* supported audio MIME types is answered 400 before any storage object is
\* created or written.
C2_UnsupportedTypeRejected ==
    (last.op = "upload" /\ last.principal # 0 /\ last.content_type \notin ContentType)
        => (last.status = 400 /\ ~last.began /\ ~OnDisk(last.name))

\* C3: stream_audio_file returns the content of a file only to its owner or
\* to a member of its authorized_users.
C3_ContentOnlyToPermitted ==
    (last.op = "stream" /\ last.status = 200)
        => /\ last.audio_id \in 1..Len(files)
           /\ \/ files[last.audio_id].owner_id = last.principal
              \/ last.principal \in files[last.audio_id].authorized_users

\* a file's content was returned while another account exists that may not read it
C3_Witness ==
    /\ last.op = "stream"
    /\ last.status = 200
    /\ \E u \in UserIds :
           /\ u # files[last.audio_id].owner_id
           /\ u \notin files[last.audio_id].authorized_users

\* C4: to an authenticated active principal, an id without a row is answered
\* 404 and an existing file of which the principal is neither owner nor
\* authorized user 403, whether or not the object is on disk; "File missing on
\* server" is answered only to a principal that may read the row.
C4_NotFoundThenForbidden ==
    (last.op = "stream" /\ last.principal # 0)
        => /\ (last.audio_id \notin 1..Len(files))
                => (last.status = 404 /\ last.detail = "Audio file not found")
           /\ (last.audio_id \in 1..Len(files))
                => LET f == files[last.audio_id]
                       permitted == \/ f.owner_id = last.principal
                                    \/ last.principal \in f.authorized_users
                   IN  /\ ~permitted => last.status = 403
                       /\ last.detail = "File missing on server"
                            => (permitted /\ ~OnDisk(f.path))

\* a principal without rights asked for a file whose row exists and whose
\* object is not on disk, and was answered 403
C4_Witness ==
    /\ last.op = "stream"
    /\ last.principal # 0
    /\ last.audio_id \in 1..Len(files)
    /\ files[last.audio_id].owner_id # last.principal
    /\ ~OnDisk(files[last.audio_id].path)
    /\ last.status = 403

(***************************************************************************)
(* Properties of the account table (SpecAccounts).                         *)
(***************************************************************************)
UniqueUsernames ==
    \A i, j \in UserIds : i # j => users[i].username # users[j].username

UniqueEmails ==
    \A i, j \in UserIds :
        (i # j /\ users[i].email # NULL) => users[i].email # users[j].email

\* C5: after any sequence of registrations, OAuth account creations, own-profile
\* updates and administrator updates, no two accounts share a username and no
\* two accounts share a non-null email; an update or a creation whose row
\* collides with another account is answered with an error and changes no row.
C5_UsernamesAndEmailsStayUnique ==
    /\ UniqueUsernames
    /\ UniqueEmails
    /\ (last.op \in {"update_own", "update_user"} /\ last.collides)
           => (last.status >= 400 /\ ~last.changed)
    /\ (last.op \in {"register", "callback"} /\ last.conflict)
           => (last.status >= 400 /\ last.created = 0)

\* C5 witness: an update that would have given one account the username or the
\* email of another was refused, and two accounts exist.
C5_Witness ==
    /\ last.op \in {"update_own", "update_user"}
    /\ last.collides
    /\ last.status >= 400
    /\ Len(users) = 2

\* C6: a create_user call commits its account only if, at the commit, no
\* committed account holds its username or its non-null email; so of two
\* concurrent calls for the same username or email at most one commits.
C6_AtMostOneCommits ==
    [][\A p \in Procs :
          (pc[p] = "cu_commit" /\ pc'[p] = "idle" /\ users' # users)
              => \A i \in UserIds :
                    /\ users[i].username # local[p].user.username
                    /\ (local[p].user.email # NULL
                           => users[i].email # local[p].user.email)]_vars

\* C6 witness: two calls for the same username both passed the look-ups, one
\* has committed its account and the other is still to commit.
C6_Witness ==
    \E q \in Procs :
        /\ pc[q] = "cu_commit"
        /\ last.op \in {"register", "callback"}
        /\ last.proc # q
        /\ last.created # 0
        /\ users[last.created].username = local[q].user.username

\* C7: a create_user call that finds its username or email taken, at the
\* look-ups or at the commit, is answered with a client error (4xx), from
\* /register and from the OAuth callback alike.
C7_ConflictIsClientError ==
    (last.op \in {"register", "callback"} /\ last.branch = "new" /\ last.conflict)
        => last.status \in 400..499

(***************************************************************************)
(* Properties of the OAuth callback (SpecOAuth).                           *)
(***************************************************************************)
\* C8: a callback whose code exchange and profile fetch succeed and whose
\* profile email belongs to an account that is not OAuth-originated answers
\* with a redirect, creates no account, changes no account and issues no token.
C8_PasswordAccountNotTakenOver ==
    [][\A p \in Procs, profile \in Profiles, email_validate \in {"ok", "AttributeError"} :
          ( /\ CallbackStart(p, NULL, "c0de", "ok", "ok", profile, email_validate, TRUE)
            /\ UserByEmail(profile.default_email) # 0
            /\ ~users[UserByEmail(profile.default_email)].is_oauth )
              => /\ pc'[p] = "idle"
                 /\ last'.op = "callback"
                 /\ last'.status \in 300..399
                 /\ ~last'.has_token
                 /\ last'.created = 0
                 /\ users' = users
                 /\ tokens' = tokens]_vars

\* C8 witness: a callback was answered on the conflict branch while the account
\* holding the profile's email is a password account.
C8_Witness ==
    /\ last.op = "callback"
    /\ last.branch = "conflict"
    /\ \E profile \in Profiles :
          /\ UserByEmail(profile.default_email) # 0
          /\ ~users[UserByEmail(profile.default_email)].is_oauth

\* C9: a callback for an identity matching no account, once its account is
\* created, answers with success: a token, is_temporary_password true and a
\* non-empty temporary password; the account is OAuth-originated, carries the
\* provider and the external id, scopes "me listener", and is not disabled.
C9_NewIdentityGetsAccountAndToken ==
    (last.op = "callback" /\ last.branch = "new" /\ last.created # 0)
        => /\ last.status = 200
           /\ last.has_token
           /\ last.is_temporary_password
           /\ last.temporary_password # ""
           /\ users[last.created].is_oauth
           /\ users[last.created].oauth_provider = "yandex"
           /\ users[last.created].scopes = SC_DEFAULT
           /\ ~users[last.created].disabled

\* C10: a callback whose profile email belongs to an OAuth-originated account
\* answers with success: a token for that account, is_temporary_password false,
\* and no new account.
C10_ReturningIdentityGetsToken ==
    (last.op = "callback" /\ last.branch = "returning")
        => /\ last.status = 200
           /\ last.has_token
           /\ ~last.is_temporary_password
           /\ last.created = 0

(***************************************************************************)
(* External identities (SpecIdentity).                                     *)
(***************************************************************************)
\* the identity of P_BOB after its owner changed login and email at the provider
P_RENAMED == [P_BOB EXCEPT !.login = "alice", !.default_email = "a@x.com"]

\* user.py 13-25: a /register body may set is_oauth, oauth_provider, oauth_id
OAuthUserCreate(username, email, password, oauth_provider, oauth_id) ==
    [UserCreate(username, email, password, SC_EMPTY, FALSE, TRUE) EXCEPT
        !.oauth_provider = oauth_provider, !.oauth_id = oauth_id]

IdentityRequests ==
    {UserCreate("alice", NULL, "pw12345678", SC_EMPTY, FALSE, FALSE),
     OAuthUserCreate("bob", "c@x.com", "pw12345678", "yandex", P_BOB.id)}

NextIdentity ==
    \/ \E p \in Procs : Register(p, IdentityRequests)
    \/ \E p \in Procs : Callback(p, {P_BOB, P_RENAMED})

SpecIdentity == Init /\ [][NextIdentity]_vars

\* C11: after any sequence of OAuth callbacks and registrations, whatever email
\* and login the provider reports for an external id, no two accounts carry the
\* same (oauth_provider, oauth_id) pair.
C11_OneAccountPerIdentity ==
    \A i, j \in UserIds :
        (i # j /\ users[i].oauth_id # NULL)
            => ~(/\ users[i].oauth_provider = users[j].oauth_provider
                 /\ users[i].oauth_id = users[j].oauth_id)

(***************************************************************************)
(* Token round trip (SpecToken).                                           *)
(***************************************************************************)
\* get.py 93-94: the token as jwt.decode sees it at verification; past its
\* `exp` (auth.py 96-100) decode raises ExpiredSignatureError, an
\* InvalidTokenError, as it does for a token that was never issued
Presented(token, expired) == [token EXCEPT !.valid = token.valid /\ ~expired]

\* a request whose only dependency is get_current_user, with no required scope
Verify(token, expired) ==
    LET r == get_current_user(Presented(token, expired), << >>, TRUE)
    IN  /\ last' = [op |-> "verify", token |-> token, expired |-> expired,
                    status |-> IF r.exc = "none" THEN 200 ELSE Respond(r).status,
                    detail |-> IF r.exc = "none" THEN "OK" ELSE Respond(r).detail,
                    username |-> IF r.exc = "none" THEN users[r.value].username ELSE NULL]
        /\ UNCHANGED <<users, files, storage, tokens, uuidCtr, pc, local>>

\* POST /token with and without requested scopes
ScopedLogin ==
    \E u \in Usernames, form_scopes \in {<< >>, <<SC_ME>>} :
        Login(u, "pw12345678", form_scopes, FALSE, TRUE)

VerifyToken == \E token \in Tokens, expired \in BOOLEAN : Verify(token, expired)

NextToken ==
    \/ Register(1, AudioRequests)
    \/ ScopedLogin
    \/ VerifyToken

SpecToken == Init /\ [][NextToken]_vars

\* C12: a token issued by login_for_access_token, verified by get_current_user
\* before its expiry, resolves to the username embedded at issuance, whether
\* the scopes were requested, taken from the account or empty; verified after
\* its expiry, it fails with the credentials error.
C12_TokenRoundTrip ==
    (last.op = "verify" /\ last.token \in tokens)
        => IF last.expired
           THEN last.status = 401 /\ last.detail = "Could not validate credentials"
           ELSE last.status = 200 /\ last.username = last.token.sub

(***************************************************************************)
(* Disabled accounts (SpecDisabled).                                       *)
(***************************************************************************)
\* me.py 19-23: GET /users/me/
read_users_me(token, db_ok) ==
    LET auth == get_current_active_user(token, <<SC_ME>>, db_ok)
    IN  /\ last' = [op |-> "read_me", token |-> token,
                    status |-> IF auth.exc = "none" THEN 200 ELSE Respond(auth).status,
                    detail |-> IF auth.exc = "none" THEN "OK" ELSE Respond(auth).detail,
                    principal |-> IF auth.exc = "none" THEN auth.value ELSE 0]
        /\ UNCHANGED <<users, files, storage, tokens, uuidCtr, pc, local>>

\* the scopes the endpoints hand to Security(get_current_active_user, ...)
GuardScopes == {<< >>, <<SC_ME>>, <<SC_ME_READ>>, <<SC_SUPERUSER>>}

\* the account named by the token is disabled
SubjectDisabled(token) ==
    \E i \in UserIds : users[i].username = token.sub /\ users[i].disabled

DisabledRequests ==
    {UserCreate("alice", NULL, "pw12345678", SC_POWER, FALSE, FALSE),
     UserCreate("bob", "b@x.com", "pw12345678", SC_POWER, TRUE, FALSE)}

AnyLogin ==
    \E u \in Usernames, password \in {"pw12345678", "wrong-password"},
       is_oauth \in BOOLEAN :
        Login(u, password, << >>, is_oauth, TRUE)

SetDisabled ==
    \E token \in Tokens, user_id \in 1..MaxUsers, disabled \in BOOLEAN :
        update_user(token, user_id, [disabled |-> disabled], TRUE)

ReadMe == \E token \in Tokens : read_users_me(token, TRUE)

NextDisabled ==
    \/ Register(1, DisabledRequests)
    \/ AnyLogin
    \/ SetDisabled
    \/ ReadMe

SpecDisabled == Init /\ [][NextDisabled]_vars

\* C13: login issues no token for a disabled account, with the password or
\* with the bypass, and reports "Inactive user" only when the password check or
\* the bypass has succeeded; get_current_active_user fails, for every endpoint's
\* scopes, on every issued token whose account is disabled now, whenever the
\* token was issued; so GET /users/me/ never answers a disabled account.
C13_DisabledAccountsFail ==
    /\ \A token \in tokens, scopes \in GuardScopes :
           SubjectDisabled(token)
               => get_current_active_user(token, scopes, TRUE).exc # "none"
    /\ (last.op = "read_me" /\ last.status < 400)
           => ~users[last.principal].disabled
    /\ (last.op = "login" /\ UserByUsername(last.username) # 0
                          /\ users[UserByUsername(last.username)].disabled)
           => /\ ~last.has_token
              /\ last.status >= 400
              /\ last.detail = "Inactive user"
                    => \/ last.bypass
                       \/ verify_password(last.password,
                              users[UserByUsername(last.username)].hashed_password)

\* C13 witness: a token issued while the account was enabled is presented to
\* GET /users/me/ after the account was disabled, and the request fails.
C13_Witness ==
    /\ last.op = "read_me"
    /\ last.token \in tokens
    /\ SubjectDisabled(last.token)
    /\ last.status >= 400

(***************************************************************************)
(* Password login (SpecLogin).                                             *)
(***************************************************************************)
\* a password account, and an account registered as OAuth-originated
LoginRequests ==
    {UserCreate("alice", "a@x.com", "pw12345678", SC_EMPTY, FALSE, FALSE),
     OAuthUserCreate("bob", "c@x.com", "pw12345678", "yandex", P_BOB.id)}

LoginPasswords == {"pw12345678", "wrong-password", TempPassword}

LoginAttempt ==
    \E u \in Usernames, password \in LoginPasswords, is_oauth \in BOOLEAN :
        Login(u, password, << >>, is_oauth, TRUE)

NextLogin ==
    \/ Register(1, LoginRequests)
    \/ Callback(1, {P_ALICE})
    \/ LoginAttempt

SpecLogin == Init /\ [][NextLogin]_vars

\* C14: without bypass, login_for_access_token answers an unknown username and
\* an existing non-OAuth username with a wrong password with the same
\* exception: same status, same detail, same headers, for every such pair.
C14_UnknownUserLikeWrongPassword ==
    \A u1, u2 \in Usernames, pw1, pw2 \in LoginPasswords :
        ( /\ UserByUsername(u1) = 0
          /\ UserByUsername(u2) # 0
          /\ ~users[UserByUsername(u2)].is_oauth
          /\ users[UserByUsername(u2)].hashed_password # get_password_hash(pw2) )
            => login_for_access_token(LoginForm(u1, pw1), Session, FALSE, TRUE)
                   = login_for_access_token(LoginForm(u2, pw2), Session, FALSE, TRUE)

\* C14 witness: a wrong password for an existing password account was answered
\* 401 while another username is unknown.
C14_Witness ==
    /\ last.op = "login"
    /\ ~last.bypass
    /\ last.status = 401
    /\ UserByUsername(last.username) # 0
    /\ ~users[UserByUsername(last.username)].is_oauth
    /\ users[UserByUsername(last.username)].hashed_password
           # get_password_hash(last.password)
    /\ \E u \in Usernames : UserByUsername(u) = 0

\* C15: without bypass, a login for an OAuth-originated account is answered
\* 403 "Please login using your OAuth provider", not the 401 of bad
\* credentials, whatever the password, and no token is issued.
C15_OAuthAccountNeedsProvider ==
    (last.op = "login" /\ ~last.bypass /\ UserByUsername(last.username) # 0
                       /\ users[UserByUsername(last.username)].is_oauth)
        => /\ last.status = 403
           /\ last.detail = "Please login using your OAuth provider"
           /\ ~last.has_token

\* C15 witness: the right password of an OAuth-originated account was refused
\* with 403.
C15_Witness ==
    /\ last.op = "login"
    /\ ~last.bypass
    /\ last.status = 403
    /\ UserByUsername(last.username) # 0
    /\ users[UserByUsername(last.username)].is_oauth
    /\ users[UserByUsername(last.username)].hashed_password
           = get_password_hash(last.password)

(***************************************************************************)
(* Ingest of one file (SpecIngest).                                        *)
(***************************************************************************)
\* the byte lengths of the uploaded bodies: an empty one and a short one
BodySizes == {0, 3}

Ingest ==
    \E token \in Tokens, content_type \in {MP3, WAV}, body \in BodySizes,
       fail \in {"none", "copy", "refresh"} :
        \E exc \in ExcAt(fail) :
            upload_audio_file(token, content_type, FN_UPPER, body, fail, exc, TRUE)

NextIngest ==
    \/ Register(1, AudioRequests)
    \/ PasswordLogin
    \/ Ingest

SpecIngest == Init /\ [][NextIngest]_vars

\* C16: every committed AudioFile record has authorized_users equal to the set
\* holding exactly its owner, and the record of an upload belongs to the
\* principal that uploaded it.
C16_OwnerIsAuthorized ==
    /\ \A i \in 1..Len(files) : files[i].authorized_users = {files[i].owner_id}
    /\ \A i \in 1..Len(files) :
           (last.op = "upload" /\ files[i].filename = last.name)
               => (last.principal # 0 /\ files[i].owner_id = last.principal)

\* C16 witness: the second user's upload succeeded after the first user's.
C16_Witness ==
    /\ last.op = "upload"
    /\ last.status = 201
    /\ Len(files) = 2
    /\ files[1].owner_id # files[2].owner_id
    /\ files[last.id].owner_id = last.principal

\* C17: an upload cancelled during the chunked copy leaves no storage object
\* behind.
C17_CancelledCopyLeavesNothing ==
    (last.op = "upload" /\ last.began /\ last.detail = "CancelledError")
        => ~OnDisk(last.name)

\* C18: every committed AudioFile record has a size greater than 0, equal to
\* the byte length of its storage object.
C18_SizePositiveAndExact ==
    \A i \in 1..Len(files) :
        /\ files[i].size > 0
        /\ \A o \in storage : o.name = files[i].path => o.size = files[i].size

(***************************************************************************)
(* Failures of the OAuth callback (SpecCallback).                          *)
(***************************************************************************)
\* outcomes of authorize_access_token and of userinfo
NetworkErrors == {"TimeoutError", "ClientError"}

ExchangeOutcomes == {"ok", "OAuthError"} \cup NetworkErrors

UserinfoOutcomes == {"ok", "MissingTokenError", "empty", "invalid"} \cup NetworkErrors

\* a callback with every outcome of the provider and of the database
FaultyCallback(p) ==
    \/ \E error \in {NULL, "access_denied"}, code \in {NULL, "c0de"},
          exchange \in ExchangeOutcomes, userinfo \in UserinfoOutcomes,
          db_ok \in BOOLEAN :
           CallbackStart(p, error, code, exchange, userinfo, P_BOB, "ok", db_ok)
    \/ \E db_ok \in BOOLEAN : CuUsername(p, db_ok)
    \/ \E db_ok \in BOOLEAN : CuEmail(p, db_ok)
    \/ \E db_ok \in BOOLEAN,
          constraint \in {"none"} \cup ConstraintNames("username") \cup ConstraintNames("email") :
           CuCommit(p, db_ok, constraint)

NextCallback ==
    \/ \E user \in AudioRequests : RegisterStart(1, user, TRUE)
    \/ \E p \in Procs : FaultyCallback(p)

SpecCallback == Init /\ [][NextCallback]_vars

\* C19: the callback answers a missing authorization code with 400, a network
\* error or timeout of the code exchange or of the profile fetch with 503, an
\* empty or schema-invalid profile with 400, and a database failure while
\* looking up or creating the account with 503.
C19_FailureTaxonomy ==
    [][\A p \in Procs :
          /\ \A exchange \in ExchangeOutcomes, userinfo \in UserinfoOutcomes,
                db_ok \in BOOLEAN :
                 CallbackStart(p, NULL, NULL, exchange, userinfo, P_BOB, "ok", db_ok)
                     => last'.status = 400
          /\ \A exchange \in NetworkErrors, userinfo \in UserinfoOutcomes,
                db_ok \in BOOLEAN :
                 CallbackStart(p, NULL, "c0de", exchange, userinfo, P_BOB, "ok", db_ok)
                     => last'.status = 503
          /\ \A userinfo \in NetworkErrors, db_ok \in BOOLEAN :
                 CallbackStart(p, NULL, "c0de", "ok", userinfo, P_BOB, "ok", db_ok)
                     => last'.status = 503
          /\ \A userinfo \in {"empty", "invalid"}, db_ok \in BOOLEAN :
                 CallbackStart(p, NULL, "c0de", "ok", userinfo, P_BOB, "ok", db_ok)
                     => last'.status = 400
          /\ CallbackStart(p, NULL, "c0de", "ok", "ok", P_BOB, "ok", FALSE)
                 => last'.status = 503
          /\ (local[p].origin = "callback"
                 /\ (CuUsername(p, FALSE) \/ CuEmail(p, FALSE)
                        \/ CuCommit(p, FALSE, "none")))
                 => last'.status = 503]_vars

\* C20: a callback that carries a provider error, with or without a code,
\* answers with the redirect to the error page whatever the code exchange, the
\* profile fetch and the database would have answered; it creates and changes
\* no account and issues no token.
C20_ProviderErrorRedirects ==
    [][\A p \in Procs, code \in {NULL, "c0de"}, exchange \in ExchangeOutcomes,
          userinfo \in UserinfoOutcomes, db_ok \in BOOLEAN :
          CallbackStart(p, "access_denied", code, exchange, userinfo, P_BOB,
                        "ok", db_ok)
              => /\ pc'[p] = "idle"
                 /\ last'.op = "callback"
                 /\ last'.status = 302
                 /\ last'.detail = "/register?error=yandex_auth_failed"
                 /\ ~last'.has_token
                 /\ last'.created = 0
                 /\ users' = users
                 /\ tokens' = tokens]_vars

\* C20 witness: a callback was answered on the provider-error branch while an
\* account that the profile's email would have matched exists.
C20_Witness ==
    /\ last.op = "callback"
    /\ last.branch = "error"
    /\ last.status = 302
    /\ UserByEmail(P_BOB.default_email) # 0

(***************************************************************************)
(* The callback, one outbound call per step (SpecFlow).                    *)
(***************************************************************************)
\* a callback that tries the exchange again after a network error
AfterExchangeRetry(exchange) ==
    IF exchange = "ok"
    THEN "cb_userinfo"
    ELSE IF exchange \in {"TimeoutError", "ClientError"} THEN "cb_exchange" ELSE "idle"

\* where the run goes after authorize_access_token answered (yandex_auth.py
\* 104-123): on to the profile fetch, or out with the exception; never again
\* to the exchange
AfterExchange(exchange) == IF exchange = "ok" THEN "cb_userinfo" ELSE "idle"

\* yandex_auth.py 76-102: the tests of `error` and `code`
CbBegin(p, error, code) ==
    /\ pc[p] = "idle"
    /\ IF ProviderError(error) \/ code = NULL
       THEN CallbackRun(p, error, code, "ok", "ok", P_BOB, "ok", TRUE)
       ELSE /\ pc' = [pc EXCEPT ![p] = "cb_exchange"]
            /\ local' = [local EXCEPT ![p] =
                   [origin |-> "callback", calls |-> << >>]]
            /\ UNCHANGED <<users, files, storage, tokens, uuidCtr, last>>

\* yandex_auth.py 104-123: await oauth.yandex.authorize_access_token(request)
CbExchange(p, exchange) ==
    /\ pc[p] = "cb_exchange"
    /\ IF AfterExchange(exchange) = "idle"
       THEN CallbackRun(p, NULL, "c0de", exchange, "ok", P_BOB, "ok", TRUE)
       ELSE /\ pc' = [pc EXCEPT ![p] = AfterExchange(exchange)]
            /\ local' = [local EXCEPT ![p].calls = Append(@, "exchange")]
            /\ UNCHANGED <<users, files, storage, tokens, uuidCtr, last>>

\* yandex_auth.py 126-149: await oauth.yandex.userinfo(token=token) and the
\* validation of the payload
CbUserinfo(p, userinfo) ==
    /\ pc[p] = "cb_userinfo"
    /\ IF userinfo # "ok"
       THEN CallbackRun(p, NULL, "c0de", "ok", userinfo, P_BOB, "ok", TRUE)
       ELSE /\ pc' = [pc EXCEPT ![p] = "cb_lookup"]
            /\ local' = [local EXCEPT ![p].calls = Append(@, "userinfo")]
            /\ UNCHANGED <<users, files, storage, tokens, uuidCtr, last>>

\* yandex_auth.py 151-245: the SELECT by email, the first statement of the run,
\* and what follows it up to create_user
CbLookup(p, profile, email_validate, db_ok) ==
    /\ pc[p] = "cb_lookup"
    /\ CallbackRun(p, NULL, "c0de", "ok", "ok", profile, email_validate, db_ok)

SteppedCallback(p) ==
    \/ \E error \in {NULL, "access_denied"}, code \in {NULL, "c0de"} : CbBegin(p, error, code)
    \/ \E exchange \in ExchangeOutcomes : CbExchange(p, exchange)
    \/ \E userinfo \in UserinfoOutcomes : CbUserinfo(p, userinfo)
    \/ \E profile \in Profiles, db_ok \in BOOLEAN : CbLookup(p, profile, "ok", db_ok)
    \/ CuUsername(p, TRUE)

NextFlow ==
    \/ \E p \in Procs : Register(p, AudioRequests)
    \/ \E p \in Procs : SteppedCallback(p)

SpecFlow == Init /\ [][NextFlow]_vars

C22_TokenOnlyForCorrectPassword ==
    (last.op = "login" /\ last.has_token)
        => \E id \in UserIds :
               /\ users[id].username = last.username
               /\ users[id].hashed_password = get_password_hash(last.password)

\* C25: whatever the body of POST /register, a row it creates has is_oauth
\* false, disabled false and scopes without "superuser".
C25_RegisterCreatesPlainAccount ==
    [][\A p \in Procs :
        (/\ pc[p] = "cu_commit"
         /\ local[p].origin = "register"
         /\ pc'[p] = "idle"
         /\ Len(users') > Len(users))
            => LET row == users'[Len(users')]
               IN  /\ ~row.is_oauth
                   /\ ~row.disabled
                   /\ ~IsSubstring(SC_SUPERUSER, row.scopes)]_vars

\* C27: create_user, called without an email, never answers that the email is
\* already registered: its lookup by email lets the creation go on to the
\* insert.
C27_NoEmailNeverConflicts ==
    [][\A p \in Procs :
        (pc[p] = "cu_email" /\ local[p].user.email = NULL /\ pc'[p] # pc[p])
            => pc'[p] = "cu_commit"]_vars

(***************************************************************************)
(* Scopes (SpecScopes).                                                    *)
(***************************************************************************)
SC_HOME == <<"h", "o", "m", "e">>

\* str.split(" "): the space-separated scopes of a scope string
SplitScopes(s) ==
    {SubSeq(s, w[1], w[2]) :
        w \in {v \in (1..Len(s)) \X (1..Len(s)) :
                  /\ v[1] <= v[2]
                  /\ \A k \in v[1]..v[2] : s[k] # " "
                  /\ (v[1] = 1 \/ s[v[1] - 1] = " ")
                  /\ (v[2] = Len(s) \/ s[v[2] + 1] = " ")}}

\* a request through Security(get_current_user, scopes=required)
Guarded(token, required) ==
    LET r == get_current_user(token, required, TRUE)
    IN  /\ last' = [op |-> "guarded", token |-> token, required |-> required,
                    status |-> IF r.exc = "none" THEN 200 ELSE Respond(r).status,
                    detail |-> IF r.exc = "none" THEN "OK" ELSE Respond(r).detail,
                    principal |-> IF r.exc = "none" THEN r.value ELSE 0]
        /\ UNCHANGED <<users, files, storage, tokens, uuidCtr, pc, local>>

\* the scopes the routes require: me.py 22 and 28-32, admin/users.py 18-24
RouteScopes == {<<SC_ME>>, <<SC_ME_READ, SC_ME>>, <<SC_SUPERUSER, SC_ME>>}

ScopeRequests ==
    {UserCreate("alice", "a@x.com", "pw12345678", SC_EMPTY, FALSE, FALSE),
     UserCreate("bob", "b@x.com", "pw12345678", SC_HOME, FALSE, FALSE)}

RequestedLogin ==
    \E u \in Usernames, form_scopes \in {<< >>, <<SC_SUPERUSER>>} :
        Login(u, "pw12345678", form_scopes, FALSE, TRUE)

GuardedRequest == \E token \in Tokens, required \in RouteScopes : Guarded(token, required)

NextScopes ==
    \/ Register(1, ScopeRequests)
    \/ RequestedLogin
    \/ GuardedRequest

SpecScopes == Init /\ [][NextScopes]_vars

\* C24: when get_current_user accepts a token issued by a login, every scope
\* it required is one of the space-separated scopes stored on the account the
\* token was issued for.
C24_AcceptedScopesAreHeld ==
    (last.op = "guarded" /\ last.status = 200 /\ last.token \in tokens)
        => \A i \in 1..Len(last.required) :
               last.required[i] \in SplitScopes(users[last.principal].scopes)

\* C26: get_current_user admits a token under the required scopes exactly when
\* each of them is one of the space-separated scopes of the token, and
\* otherwise (for a token that names an account) answers "Not enough
\* permissions".
C26_ScopeIsWholeWord ==
    (last.op = "guarded" /\ last.token \in tokens /\ last.token.scopes.kind = "str")
        => IF \A i \in 1..Len(last.required) :
                  last.required[i] \in SplitScopes(last.token.scopes.val)
           THEN last.status = 200
           ELSE last.status = 401 /\ last.detail = "Not enough permissions"

(***************************************************************************)
(* What the two updates leave alone (SpecProfile).                         *)
(***************************************************************************)
ProfileRequests ==
    {UserCreate("alice", "a@x.com", "pw12345678", SC_POWER, FALSE, FALSE),
     UserCreate("bob", NULL, "pw12345678", SC_EMPTY, FALSE, FALSE)}

\* bodies of PUT /users/me/update/, each with a password
ProfileUpdates ==
    {[username |-> NULL, email |-> NULL, full_name |-> << >>, password |-> "new-password"],
     [username |-> "bob", email |-> NULL, full_name |-> << >>, password |-> "new-password"],
     [username |-> NULL, email |-> "c@x.com", full_name |-> << >>, password |-> "new-password"],
     [username |-> NULL, email |-> NULL, full_name |-> <<"N">>, password |-> "new-password"],
     [username |-> "bob", email |-> "a@x.com", full_name |-> <<"N">>, password |-> "new-password"]}

UpdateOwnProfile ==
    \E token \in Tokens, user_update \in ProfileUpdates :
        update_own_user(token, user_update, TRUE)

NextProfile ==
    \/ Register(1, ProfileRequests)
    \/ PasswordLogin
    \/ UpdateOwnProfile

SpecProfile == Init /\ [][NextProfile]_vars

\* C29: update_own_user changes nothing but the username, email and full_name
\* of the account of the calling principal, and of these only the ones the
\* request supplies non-empty, which take the supplied value when the update
\* is stored; the password hash, disabled flag, scopes and OAuth fields of
\* that account, the number of accounts and every other account stay as they
\* were, although the request carries a password.
C29_OwnUpdateFrame ==
    [][\A token \in Tokens, user_update \in ProfileUpdates :
        update_own_user(token, user_update, TRUE)
            => LET auth == get_current_active_user(token, <<SC_ME_READ>>, TRUE)
               IN  /\ Len(users') = Len(users)
                   /\ \A id \in UserIds :
                          /\ (auth.exc # "none" \/ id # auth.value)
                                 => users'[id] = users[id]
                          /\ \A k \in DOMAIN users[id] \ {"username", "email", "full_name"} :
                                 users'[id][k] = users[id][k]
                          /\ user_update.username = NULL
                                 => users'[id].username = users[id].username
                          /\ user_update.email = NULL
                                 => users'[id].email = users[id].email
                          /\ user_update.full_name = << >>
                                 => users'[id].full_name = users[id].full_name
                   /\ (auth.exc = "none" /\ last'.status = 200)
                          => /\ user_update.username # NULL
                                 => users'[auth.value].username = user_update.username
                             /\ user_update.email # NULL
                                 => users'[auth.value].email = user_update.email
                             /\ user_update.full_name # << >>
                                 => users'[auth.value].full_name = user_update.full_name]_vars

\* C29 witness: an update of the own account, whose request carried a
\* password, was stored and changed the account, which keeps the hash of the
\* password it registered with.
C29_Witness ==
    /\ last.op = "update_own"
    /\ last.status = 200
    /\ last.changed
    /\ users[last.principal].hashed_password = get_password_hash("pw12345678")
    /\ users[last.principal].full_name = <<"N">>

\* bodies of PATCH /users/{user_id}
ProfileAdminUpdates ==
    {[password |-> "new-password"],
     [username |-> "bob", password |-> "new-password"],
     [email |-> "a@x.com", full_name |-> <<"N">>],
     [scopes |-> SC_ME_READ, disabled |-> TRUE]}

UpdateUserProfile ==
    \E token \in Tokens, user_id \in 1..(MaxUsers + 1), user_update \in ProfileAdminUpdates :
        update_user(token, user_id, user_update, TRUE)

NextAdmin ==
    \/ Register(1, ProfileRequests)
    \/ PasswordLogin
    \/ UpdateUserProfile

SpecAdmin == Init /\ [][NextAdmin]_vars

\* C30: update_user assigns to the account user_id exactly the fields the
\* request sets, the password excepted: a stored update gives each set field
\* the value of the request, and in every case the fields not set, the
\* password hash and the OAuth fields of that account, the number of accounts
\* and all other accounts stay as they were; for a user_id with no account an
\* authorized request is answered 404 and nothing changes.
C30_AdminUpdateFrame ==
    [][\A token \in Tokens, user_id \in 1..(MaxUsers + 1),
          user_update \in ProfileAdminUpdates :
        update_user(token, user_id, user_update, TRUE)
            => LET auth == get_current_active_user(token, <<SC_SUPERUSER>>, TRUE)
               IN  /\ Len(users') = Len(users)
                   /\ \A id \in UserIds : id # user_id => users'[id] = users[id]
                   /\ user_id \in UserIds
                          => \A k \in DOMAIN users[user_id] :
                                 /\ k \notin DOMAIN user_update
                                        => users'[user_id][k] = users[user_id][k]
                                 /\ (k \in DOMAIN user_update /\ last'.status = 200)
                                        => users'[user_id][k] = user_update[k]
                                 /\ (k \in DOMAIN user_update /\ last'.status # 200)
                                        => users'[user_id][k] = users[user_id][k]
                   /\ (auth.exc = "none" /\ user_id \notin UserIds)
                          => (last'.status = 404 /\ users' = users)]_vars

\* C30 witness: an admin update of the second account was stored and changed
\* it; the account was renamed and given other scopes by admin updates, some
\* of which carried a password, and keeps the hash it registered with.
C30_Witness ==
    /\ last.op = "update_user"
    /\ last.status = 200
    /\ last.changed
    /\ last.user_id = 2
    /\ users[2].username = "bob"
    /\ users[2].scopes = SC_ME_READ
    /\ users[2].hashed_password = get_password_hash("pw12345678")

(***************************************************************************)
(* Clients that keep the token of a login (SpecSubject).                   *)
(***************************************************************************)
SubjectRequests ==
    {UserCreate(u, e, "pw12345678", SC_POWER, FALSE, FALSE) :
        u \in Usernames, e \in {"a@x.com", "b@x.com"}}

\* POST /token by client p, who keeps the token; `account` is the row
\* login_for_access_token read the username and scopes from
ClientLogin(p, username) ==
    /\ pc[p] = "idle"
    /\ LET form_data == [username |-> username, password |-> "pw12345678", scopes |-> << >>]
           r == login_for_access_token(form_data, Session, FALSE, TRUE)
       IN  /\ r.exc = "none"
           /\ Cardinality(tokens \cup {r.value}) <= MaxTokens
           /\ tokens' = tokens \cup {r.value}
           /\ pc' = [pc EXCEPT ![p] = "holding"]
           /\ local' = [local EXCEPT ![p] =
                  [origin |-> "client", token |-> r.value,
                   account |-> UserByUsername(username)]]
           /\ last' = [op |-> "login", status |-> 200, detail |-> "OK",
                       username |-> username, password |-> "pw12345678",
                       bypass |-> FALSE, has_token |-> TRUE, token |-> r.value]
    /\ UNCHANGED <<users, files, storage, uuidCtr>>

\* PUT /users/me/update/ with the kept token and a new username
ClientRename(p, username) ==
    /\ pc[p] = "holding"
    /\ update_own_user(local[p].token,
                       [username |-> username, email |-> NULL,
                        full_name |-> << >>, password |-> NULL], TRUE)

\* PATCH /users/{user_id} with the kept token and a new username
ClientAdminRename(p, user_id, username) ==
    /\ pc[p] = "holding"
    /\ update_user(local[p].token, user_id, [username |-> username], TRUE)

\* a request of client p through get_current_user with the kept token
ClientRequest(p) ==
    /\ pc[p] = "holding"
    /\ LET r == get_current_user(local[p].token, << >>, TRUE)
       IN  last' = [op |-> "client", token |-> local[p].token,
                    account |-> local[p].account,
                    status |-> IF r.exc = "none" THEN 200 ELSE Respond(r).status,
                    detail |-> IF r.exc = "none" THEN "OK" ELSE Respond(r).detail,
                    principal |-> IF r.exc = "none" THEN r.value ELSE 0]
    /\ UNCHANGED <<users, files, storage, tokens, uuidCtr, pc, local>>

NextSubject ==
    \/ \E p \in Procs : Register(p, SubjectRequests)
    \/ \E p \in Procs, username \in Usernames : ClientLogin(p, username)
    \/ \E p \in Procs, username \in Usernames : ClientRename(p, username)
    \/ \E p \in Procs, user_id \in 1..MaxUsers, username \in Usernames :
           ClientAdminRename(p, user_id, username)
    \/ \E p \in Procs : ClientRequest(p)

SpecSubject == Init /\ [][NextSubject]_vars

\* C23: after any sequence of logins, username changes and registrations,
\* get_current_user applied to a token returns the account the token was
\* issued to, or fails.
C23_TokenKeepsItsAccount ==
    (last.op = "client" /\ last.status = 200) => last.principal = last.account

(***************************************************************************)
(* The session of a request (SpecSession).                                 *)
(***************************************************************************)
\* session.py 149-157: what get_session does to its session when it is resumed
\* at the yield: by an exception of the with-body, by the end of the
\* with-body, or by the GeneratorExit of aclose()
get_session_exit(thrown) ==
    IF thrown = "Exception" THEN <<"rollback", "close">> ELSE <<"close">>

\* session.py 182-184: get_db enters the context manager, returns the session
\* and drops the manager; the generator stays suspended at the yield until the
\* event loop finalizes it
get_db(p) ==
    /\ pc[p] = "idle"
    /\ pc' = [pc EXCEPT ![p] = "handler"]
    /\ local' = [local EXCEPT ![p] =
           [origin |-> "get_db", session |-> "new", generator |-> "suspended",
            calls |-> << >>, raised |-> FALSE]]
    /\ UNCHANGED <<users, files, storage, tokens, uuidCtr, last>>

\* the finalizer of the unreferenced generator: aclose() throws GeneratorExit
\* at the yield, at whatever point of the request the loop gets to it
Finalize(p) ==
    /\ local[p].origin = "get_db"
    /\ local[p].generator = "suspended"
    /\ local' = [local EXCEPT ![p].generator = "closed",
                              ![p].session = "closed",
                              ![p].calls = @ \o get_session_exit("GeneratorExit")]
    /\ UNCHANGED <<users, files, storage, tokens, uuidCtr, pc, last>>

\* a statement of the handler on its session, which begins a transaction,
\* also on a session that was closed
HandlerStatement(p) ==
    /\ pc[p] = "handler"
    /\ local[p].origin = "get_db"
    /\ local' = [local EXCEPT ![p].session = "active"]
    /\ UNCHANGED <<users, files, storage, tokens, uuidCtr, pc, last>>

\* the handler returns or raises; nothing is thrown into get_session, whose
\* manager the request does not hold
HandlerEnd(p, raises) ==
    /\ pc[p] = "handler"
    /\ local[p].origin = "get_db"
    /\ pc' = [pc EXCEPT ![p] = "idle"]
    /\ local' = [local EXCEPT ![p].raised = raises]
    /\ UNCHANGED <<users, files, storage, tokens, uuidCtr, last>>

NextSession ==
    \/ \E p \in Procs : get_db(p)
    \/ \E p \in Procs : Finalize(p)
    \/ \E p \in Procs : HandlerStatement(p)
    \/ \E p \in Procs, raises \in BOOLEAN : HandlerEnd(p, raises)

SpecSession == Init /\ [][NextSession]_vars

\* C28: once a request has completed and the generator behind its session has
\* been finalized, the session get_db handed to it is closed, and it was rolled
\* back before the close when the handler raised.
C28_SessionsClosedAfterRequest ==
    \A p \in Procs :
        (/\ pc[p] = "idle"
         /\ local[p].origin = "get_db"
         /\ local[p].generator = "closed")
            => /\ local[p].session = "closed"
               /\ local[p].raised => local[p].calls = <<"rollback", "close">>

====
